---------------------------- MODULE Spec2Model ----------------------------
(***************************************************************************)
(* Model of the command meta classes of lmi.scripts.common.command.meta.   *)
(*                                                                         *)
(* A class declaration is (metaclass, name, bases, dcl); dcl is the class  *)
(* dictionary, a function from attribute names to Python values.  Each     *)
(* metaclass __new__ is an operator from the declaration to either an      *)
(* exception or the finished class.  Built classes live in the registry    *)
(* `classes`, `declared` keeps the dictionary each of them was declared    *)
(* with, and `last` records the latest operation and its outcome.          *)
(*                                                                         *)
(* The reply cache of lmi.scripts.hardware (_cache_replies) is modelled    *)
(* next to it: `cache_attr` is the attribute _cache_replies.cache,         *)
(* `heap` the dictionaries it has referred to, `frames` the local          *)
(* variables and the position of each thread inside the function, and     *)
(* `hist` a record of what has been invoked.                               *)
(***************************************************************************)
EXTENDS Naturals, Sequences, FiniteSets, TLC

VARIABLES classes, declared, last, cache_attr, heap, frames, hist

\* the state of the reply cache
hw == <<cache_attr, heap, frames, hist>>
vars == <<classes, declared, last, cache_attr, heap, frames, hist>>

(***************************************************************************)
(* Bounds of the model.                                                    *)
(***************************************************************************)
\* number of user classes declared on top of the framework's base classes
MaxClasses == 2
\* number of namespace objects the reply cache is called with
MaxNamespaces == 2
\* number of times a method is invoked for the same key and namespace object
MaxInvocations == 2

(***************************************************************************)
(* Python values.  Every value is a record with a tag t; values with       *)
(* different tags have different field sets besides t.  Strings are        *)
(* sequences of characters so that patterns can be matched on them.        *)
(***************************************************************************)
PyNone == [t |-> "NoneType"]
PyTrue == [t |-> "bool", b |-> TRUE]
PyFalse == [t |-> "bool", b |-> FALSE]
Str(cs) == [t |-> "str", s |-> cs]
Int(n) == [t |-> "int", n |-> n]
\* a plain function object, identified by its name
Func(n) == [t |-> "function", fname |-> n]
\* a method marked with abc.abstractmethod
AbstractMethod == [t |-> "abstractmethod"]
List(xs) == [t |-> "list", items |-> xs]
Tuple(xs) == [t |-> "tuple", items |-> xs]
Dict(ps) == [t |-> "dict", pairs |-> ps]
ClassRef(i) == [t |-> "class", id |-> i]
ClassMethod(v) == [t |-> "classmethod", ret |-> v]

IsNone(v) == v.t = "NoneType"
IsTrue(v) == v.t = "bool" /\ v.b
isinstance_basestring(v) == v.t = "str"

\* callable(v)
callable(v) == v.t \in {"function", "_execute", "_render", "_render_dynamic",
                        "_new_expect", "abstractmethod", "class"}

\* truth value of a Python object (`not x`, `if x`)
Truthy(v) ==
    CASE v.t = "NoneType" -> FALSE
      [] v.t = "bool" -> v.b
      [] v.t = "str" -> Len(v.s) > 0
      [] v.t = "int" -> v.n # 0
      [] v.t \in {"list", "tuple"} -> Len(v.items) > 0
      [] v.t = "dict" -> Len(v.pairs) > 0
      [] OTHER -> TRUE

\* x == y for the values the model compares
PyEq(x, y) ==
    /\ x.t = y.t
    /\ CASE x.t = "NoneType" -> TRUE
         [] x.t = "bool" -> x.b = y.b
         [] x.t = "str" -> x.s = y.s
         [] x.t = "int" -> x.n = y.n
         [] x.t = "function" -> x.fname = y.fname
         [] OTHER -> x = y

(***************************************************************************)
(* Class dictionaries.                                                     *)
(***************************************************************************)
EmptyDict == <<>>
Has(d, k) == k \in DOMAIN d
Get(d, k, default) == IF k \in DOMAIN d THEN d[k] ELSE default
Pop(d, k) == [x \in DOMAIN d \ {k} |-> d[x]]
Put(d, k, v) == [x \in DOMAIN d \cup {k} |-> IF x = k THEN v ELSE d[x]]

(***************************************************************************)
(* Exceptions.  The command definition errors of lmi.scripts.common.errors *)
(* carry the module and the name of the command.                           *)
(***************************************************************************)
NoExc == [type |-> "none"]
DefinitionErrors == {"LmiCommandError", "LmiCommandInvalidProperty",
                     "LmiCommandInvalidName", "LmiCommandMissingCallable",
                     "LmiCommandInvalidCallable", "LmiCommandImportFailed"}
\* raise errors.<type>(module, name, ...)
CommandError(type, module, name) ==
    [type |-> type, module |-> module, cmd |-> name]
\* an exception that is no command definition error
PyError(type) == [type |-> type]
Raised(r) == r.exc.type # "none"
\* the module every declaration of the model is written in
ModuleName == Str(<<"m">>)

(***************************************************************************)
(* The registry of built classes and attribute lookup.  A class is         *)
(* [name, mcs, bases, dict]; bases are indices into the registry.          *)
(***************************************************************************)
Missing == [t |-> "<missing>"]

RECURSIVE getattr_class(_, _, _)
RECURSIVE getattr_bases(_, _, _)
\* getattr(cls, attr): the class's own dictionary, then its bases in order
getattr_class(cs, i, attr) ==
    IF Has(cs[i].dict, attr) THEN cs[i].dict[attr]
    ELSE getattr_bases(cs, cs[i].bases, attr)
getattr_bases(cs, bases, attr) ==
    IF bases = <<>> THEN Missing
    ELSE LET v == getattr_class(cs, Head(bases), attr)
         IN IF v.t # "<missing>" THEN v
            ELSE getattr_bases(cs, Tail(bases), attr)

\* util.is_abstract_method(bases, method, missing_is_abstract): whether the
\* method the bases provide is abstract; a method no base has counts as
\* missing_is_abstract
is_abstract_method(cs, bases, method, missing_is_abstract) ==
    LET v == getattr_bases(cs, bases, method)
    IN IF v.t = "<missing>" THEN missing_is_abstract
       ELSE v.t = "abstractmethod"

RECURSIVE issubclass(_, _, _)
\* issubclass(cls i, cls j)
issubclass(cs, i, j) ==
    \/ i = j
    \/ \E k \in DOMAIN cs[i].bases : issubclass(cs, cs[i].bases[k], j)

(***************************************************************************)
(* RE_CALLABLE and the import of a "module:function" string.               *)
(***************************************************************************)
Letters == {"a", "b", "c", "d", "e", "f", "g", "h", "i", "j", "k", "l", "m",
            "n", "o", "p", "q", "r", "s", "t", "u", "v", "w", "x", "y", "z",
            "A", "B", "C", "D", "E", "F", "G", "H", "I", "J", "K", "L", "M",
            "N", "O", "P", "Q", "R", "S", "T", "U", "V", "W", "X", "Y", "Z",
            "_"}
AllLetters(cs) == Len(cs) > 0 /\ \A i \in DOMAIN cs : cs[i] \in Letters

\* [a-z_]+(?:\.[a-z_]+)* : letters in non-empty runs separated by dots
DottedName(cs) ==
    /\ Len(cs) > 0
    /\ \A i \in DOMAIN cs : cs[i] \in Letters \cup {"."}
    /\ cs[1] # "." /\ cs[Len(cs)] # "."
    /\ \A i \in 1..(Len(cs) - 1) : ~(cs[i] = "." /\ cs[i + 1] = ".")

\* '$' also matches before a newline that ends the string
StripFinalNewline(cs) ==
    IF Len(cs) > 0 /\ cs[Len(cs)] = "\n" THEN SubSeq(cs, 1, Len(cs) - 1)
    ELSE cs

\* RE_CALLABLE.match(cs): [matched, module, func]
RE_CALLABLE_match(cs0) ==
    LET cs == StripFinalNewline(cs0)
        colons == {i \in DOMAIN cs : cs[i] = ":"}
    IN IF Cardinality(colons) # 1
       THEN [matched |-> FALSE, module |-> <<>>, func |-> <<>>]
       ELSE LET p == CHOOSE i \in colons : TRUE
                mod == SubSeq(cs, 1, p - 1)
                fn == SubSeq(cs, p + 1, Len(cs))
            IN [matched |-> DottedName(mod) /\ AllLetters(fn),
                module |-> mod, func |-> fn]

\* the modules the interpreter can import, each with its attributes
ImportableModules == <<
    [name |-> <<"h", "w">>,
     attrs |-> <<[name |-> <<"f">>, value |-> Func("f")],
                 [name |-> <<"n">>, value |-> Int(7)]>>] >>

\* getattr(__import__(mod_name, ..., [func], 0), func): the attribute, or
\* Missing when ImportError or AttributeError is raised
import_attr(mod_name, func) ==
    LET ms == {i \in DOMAIN ImportableModules :
                  ImportableModules[i].name = mod_name}
    IN IF ms = {} THEN Missing
       ELSE LET m == ImportableModules[CHOOSE i \in ms : TRUE]
                as == {j \in DOMAIN m.attrs : m.attrs[j].name = func}
            IN IF as = {} THEN Missing
               ELSE m.attrs[CHOOSE j \in as : TRUE].value

(***************************************************************************)
(* _handle_usage, _make_execute_method, _handle_callable.  Each returns    *)
(* [exc, dcl]: the exception raised (NoExc if none) and the dictionary as  *)
(* the function left it.                                                   *)
(***************************************************************************)
_handle_usage(name, dcl) ==
    LET hlp == Get(dcl, "OWN_USAGE", PyFalse)
        d1 == Pop(dcl, "OWN_USAGE")
        own(d) == IF Has(d, "has_own_usage") THEN d
                  ELSE Put(d, "has_own_usage", ClassMethod(PyTrue))
    IN IF IsTrue(hlp)
       THEN IF ~Has(d1, "__doc__")
            THEN [exc |-> PyError("KeyError"), dcl |-> d1]
            ELSE IF IsNone(d1["__doc__"])
            THEN [exc |-> CommandError("LmiCommandInvalidProperty",
                                       d1["__module__"], name),
                  dcl |-> d1]
            ELSE [exc |-> NoExc, dcl |-> own(d1)]
       ELSE IF isinstance_basestring(hlp)
       THEN IF ~Has(d1, "__doc__")
            THEN [exc |-> NoExc, dcl |-> own(Put(d1, "__doc__", hlp))]
            ELSE IF ~Has(d1, "get_usage")
            THEN [exc |-> NoExc,
                  dcl |-> own(Put(d1, "get_usage",
                                  [t |-> "_new_get_usage", hlp |-> hlp]))]
            ELSE [exc |-> NoExc, dcl |-> own(d1)]
       ELSE [exc |-> NoExc, dcl |-> d1]

\* the closure _execute with its free variables func and namespace
ExecuteMethod(func, namespace) ==
    [t |-> "_execute", dest |-> func, namespace |-> namespace]

\* _make_execute_method without `del dcl['CALLABLE']`
_make_execute_method_keeping_callable(cs, bases, dcl, func, namespace) ==
    IF ~IsNone(func) /\ is_abstract_method(cs, bases, "execute", TRUE)
    THEN [exc |-> NoExc,
          dcl |-> Put(dcl, "execute", ExecuteMethod(func, namespace))]
    ELSE [exc |-> NoExc, dcl |-> dcl]

_make_execute_method(cs, bases, dcl, func, namespace) ==
    IF ~IsNone(func) /\ is_abstract_method(cs, bases, "execute", TRUE)
    THEN IF ~Has(dcl, "CALLABLE")
         THEN [exc |-> PyError("KeyError"), dcl |-> dcl]
         ELSE [exc |-> NoExc,
               dcl |-> Put(Pop(dcl, "CALLABLE"), "execute",
                           ExecuteMethod(func, namespace))]
    ELSE [exc |-> NoExc, dcl |-> dcl]

_handle_callable(cs, name, bases, dcl, namespace) ==
    LET func0 == Get(dcl, "CALLABLE", PyNone)
        match == RE_CALLABLE_match(func0.s)
        imported == import_attr(match.module, match.func)
        fail(type) == [exc |-> CommandError(type, dcl["__module__"], name),
                       dcl |-> dcl]
        rest(func) ==
            IF ~IsNone(func) /\ ~callable(func)
            THEN \* func.__module__ of an object that is no function
                 [exc |-> PyError("AttributeError"), dcl |-> dcl]
            ELSE _make_execute_method(cs, bases, dcl, func, namespace)
    IN IF isinstance_basestring(func0)
       THEN IF ~match.matched THEN fail("LmiCommandInvalidCallable")
            ELSE IF imported.t = "<missing>"
            THEN fail("LmiCommandImportFailed")
            ELSE rest(imported)
       ELSE rest(func0)

(***************************************************************************)
(* The meta classes.  <Meta>_new(cs, name, bases, dcl) is the body of      *)
(* __new__ up to the call of abc.ABCMeta.__new__: it returns [exc, dcl].   *)
(***************************************************************************)
EndPointCommandMetaClass_new(cs, name, bases, dcl) ==
    LET u == _handle_usage(name, dcl)
    IN IF Raised(u) THEN u
       ELSE _handle_callable(cs, name, bases, u.dcl, PyNone)

DefaultNamespace == Str(<<"root/cimv2">>)

SessionCommandMetaClass_new(cs, name, bases, dcl) ==
    LET u == _handle_usage(name, dcl)
        namespace0 == Get(u.dcl, "NAMESPACE", DefaultNamespace)
        d1 == Pop(u.dcl, "NAMESPACE")
        namespace == IF ~Truthy(namespace0) THEN PyNone ELSE namespace0
        c == _handle_callable(cs, name, bases, d1, namespace)
    IN IF Raised(u) THEN u
       ELSE IF Raised(c) THEN c
       ELSE EndPointCommandMetaClass_new(cs, name, bases, c.dcl)

ListerMetaClass_new(cs, name, bases, dcl) ==
    LET cols == Get(dcl, "COLUMNS", PyNone)
        d1 == Pop(dcl, "COLUMNS")
        fail == [exc |-> CommandError("LmiCommandInvalidProperty",
                                      d1["__module__"], name),
                 dcl |-> d1]
    IN IF IsNone(cols) THEN SessionCommandMetaClass_new(cs, name, bases, d1)
       ELSE IF cols.t \notin {"list", "tuple"} THEN fail
       ELSE IF \E i \in DOMAIN cols.items :
                   ~isinstance_basestring(cols.items[i])
       THEN fail
       ELSE SessionCommandMetaClass_new(cs, name, bases,
                Put(d1, "get_columns", ClassMethod(cols)))

\* ShowInstanceMetaClass._check_properties: the exception it raises
_check_properties(name, dcl, props) ==
    LET bad(prop) ==
            \/ prop.t \notin {"str", "tuple", "list"}
            \/ /\ prop.t \in {"tuple", "list"}
               /\ \/ Len(prop.items) # 2
                  \/ ~isinstance_basestring(prop.items[1])
                  \/ ~callable(prop.items[2])
    IN IF IsNone(props) \/ props.t = "str" THEN NoExc
       ELSE IF props.t \notin {"list", "tuple"} THEN PyError("TypeError")
       ELSE IF \E i \in DOMAIN props.items : bad(props.items[i])
       THEN CommandError("LmiCommandInvalidProperty", dcl["__module__"], name)
       ELSE NoExc

\* the closure _render of _make_render_all_properties
RenderAllMethod == [t |-> "_render_all"]
\* the closure _render of _make_render_with_properties(properties)
RenderMethod(properties) == [t |-> "_render", properties |-> properties]
\* the closure _render_dynamic
RenderDynamicMethod == [t |-> "_render_dynamic"]

\* _make_render_all_properties(bases, dcl): [ret, dcl], the value it returns
\* and the dictionary as it leaves it
_make_render_all_properties(cs, bases, dcl) ==
    [ret |-> PyNone,
     dcl |-> IF is_abstract_method(cs, bases, "render", TRUE)
             THEN Put(dcl, "render", RenderAllMethod)
             ELSE dcl]

_make_render_with_properties(properties) == RenderMethod(properties)

\* ShowInstanceMetaClass.__new__ without the check that DYNAMIC_PROPERTIES
\* and PROPERTIES exclude each other
ShowInstanceMetaClass_new_unchecked(cs, name, bases, dcl) ==
    LET dynamic_properties == Get(dcl, "DYNAMIC_PROPERTIES", PyFalse)
        d1 == Pop(dcl, "DYNAMIC_PROPERTIES")
        properties == Get(d1, "PROPERTIES", PyNone)
        d2 == Pop(d1, "PROPERTIES")
        d3 == IF IsNone(properties) /\ ~Truthy(dynamic_properties)
              THEN Put(d2, "render", PyNone)
              ELSE IF IsNone(properties) /\ Truthy(dynamic_properties)
              THEN Put(d2, "render", RenderDynamicMethod)
              ELSE Put(d2, "render",
                       _make_render_with_properties(properties))
    IN SessionCommandMetaClass_new(cs, name, bases, d3)

ShowInstanceMetaClass_new(cs, name, bases, dcl) ==
    LET dynamic_properties == Get(dcl, "DYNAMIC_PROPERTIES", PyFalse)
        d1 == Pop(dcl, "DYNAMIC_PROPERTIES")
        properties == Get(d1, "PROPERTIES", PyNone)
        d2 == Pop(d1, "PROPERTIES")
        chk == _check_properties(name, d2, properties)
        all == _make_render_all_properties(cs, bases, d2)
        d3 == IF IsNone(properties) /\ ~Truthy(dynamic_properties)
              THEN Put(all.dcl, "render", all.ret)
              ELSE IF IsNone(properties) /\ Truthy(dynamic_properties)
              THEN Put(d2, "render", RenderDynamicMethod)
              ELSE Put(d2, "render",
                       _make_render_with_properties(properties))
    IN IF Truthy(dynamic_properties) /\ Has(d1, "PROPERTIES")
       THEN [exc |-> CommandError("LmiCommandError", d1["__module__"], name),
             dcl |-> d1]
       ELSE IF chk.type # "none" THEN [exc |-> chk, dcl |-> d2]
       ELSE SessionCommandMetaClass_new(cs, name, bases, d3)

\* the closure _new_expect with its free variable expect
ExpectMethod(expect) ==
    [t |-> "_new_expect", expect |-> expect, calls |-> callable(expect)]

CheckResultMetaClass_new(cs, name, bases, dcl) ==
    IF Has(dcl, "EXPECT")
    THEN SessionCommandMetaClass_new(cs, name, bases,
             Put(Pop(dcl, "EXPECT"), "check_result",
                 ExpectMethod(dcl["EXPECT"])))
    ELSE SessionCommandMetaClass_new(cs, name, bases, dcl)

(***************************************************************************)
(* MultiplexerMetaClass.  COMMANDS is a dictionary whose items() come in   *)
(* no particular order: env.order is the order in which the loop visits    *)
(* the pairs.  The loop assigns to __doc__ of the children, which the      *)
(* interpreter either performs or refuses with AttributeError ("attribute  *)
(* '__doc__' of 'type' objects is not writable"): env.writable says which. *)
(* The result carries the registry as well: [exc, dcl, cs, warnings].      *)
(***************************************************************************)
MultiplexerMetaClass == "MultiplexerMetaClass"
\* the index of base.LmiBaseCommand in the registry
LmiBaseCommand == 1

\* is_root_multiplexer that looks at the bases' own meta class only when
\* there are several of them
is_root_multiplexer_single(cs, bases) ==
    Len(bases) < 2 \/ ~\E i \in DOMAIN bases : cs[bases[i]].mcs = MultiplexerMetaClass

is_root_multiplexer(cs, bases) ==
    ~\E i \in DOMAIN bases : cs[bases[i]].mcs = MultiplexerMetaClass

\* base.RE_COMMAND_NAME.match(cmd_name)
RE_COMMAND_NAME_match(cmd_name) == AllLetters(cmd_name.s)

\* cmd.is_end_point()
is_end_point(cs, i) == getattr_class(cs, i, "is_end_point").ret.b

\* cmd.__doc__ = doc
SetDoc(cs, i, doc) == [cs EXCEPT ![i].dict = Put(@, "__doc__", doc)]

RECURSIVE ChildLoop(_, _, _, _, _, _, _)
\* for cmd_name, cmd in cmds.items(): ... ; returns [exc, cs]
ChildLoop(cs, pairs, order, writable, dcl, module_name, name) ==
    IF order = <<>> THEN [exc |-> NoExc, cs |-> cs]
    ELSE LET cmd_name == pairs[Head(order)][1]
             cmd == pairs[Head(order)][2]
         IN IF ~RE_COMMAND_NAME_match(cmd_name)
            THEN [exc |-> CommandError("LmiCommandInvalidName",
                                       module_name, name),
                  cs |-> cs]
            ELSE IF cmd.t # "class"
            THEN [exc |-> PyError("TypeError"), cs |-> cs]
            ELSE IF ~issubclass(cs, cmd.id, LmiBaseCommand)
            THEN [exc |-> CommandError("LmiCommandError", module_name, name),
                  cs |-> cs]
            ELSE IF is_end_point(cs, cmd.id)
            THEN ChildLoop(cs, pairs, Tail(order), writable, dcl,
                           module_name, name)
            ELSE IF ~Has(dcl, "__doc__")
            THEN [exc |-> PyError("KeyError"), cs |-> cs]
            ELSE IF ~writable
            THEN [exc |-> PyError("AttributeError"), cs |-> cs]
            ELSE ChildLoop(SetDoc(cs, cmd.id, dcl["__doc__"]), pairs,
                           Tail(order), writable, dcl, module_name, name)

MissingDescription == "missing description string"

MultiplexerMetaClass_new(cs, name, bases, dcl, env) ==
    LET module_name == Get(dcl, "__module__", name)
        cmds == dcl["COMMANDS"]
        d1 == Pop(dcl, "COMMANDS")
        loop == ChildLoop(cs, cmds.pairs, env.order, env.writable, d1,
                          module_name, name)
        d2 == Put(d1, "child_commands", ClassMethod(cmds))
        warnings == IF IsNone(Get(d2, "__doc__", PyNone))
                    THEN <<MissingDescription>> ELSE <<>>
        u == _handle_usage(name, d2)
        fail(type) == [exc |-> CommandError(type, module_name, name),
                       dcl |-> d1, cs |-> cs, warnings |-> <<>>]
    IN IF is_root_multiplexer(cs, bases)
       THEN [exc |-> NoExc, dcl |-> dcl, cs |-> cs, warnings |-> <<>>]
       ELSE IF ~Has(dcl, "COMMANDS")
       THEN [exc |-> CommandError("LmiCommandError", module_name, name),
             dcl |-> dcl, cs |-> cs, warnings |-> <<>>]
       ELSE IF cmds.t # "dict" THEN fail("LmiCommandInvalidProperty")
       ELSE IF \E i \in DOMAIN cmds.pairs :
                   ~isinstance_basestring(cmds.pairs[i][1])
       THEN fail("LmiCommandInvalidProperty")
       ELSE IF Raised(loop)
       THEN [exc |-> loop.exc, dcl |-> d1, cs |-> loop.cs,
             warnings |-> <<>>]
       ELSE [exc |-> u.exc, dcl |-> u.dcl, cs |-> loop.cs,
             warnings |-> warnings]

(***************************************************************************)
(* Class creation: the metaclass's __new__, then abc.ABCMeta.__new__.      *)
(***************************************************************************)
\* type.__new__(mcs, name, bases, dcl): the class object; a class without a
\* documentation string has __doc__ None
type_new(mcs, name, bases, dcl) ==
    [name |-> name, mcs |-> mcs, bases |-> bases,
     dict |-> IF Has(dcl, "__doc__") THEN dcl
              ELSE Put(dcl, "__doc__", PyNone)]

\* <Meta>.__new__ of an end-point meta class (or of abc.ABCMeta itself)
LeafMetaClass_new(cs, mcs, name, bases, dcl) ==
    CASE mcs = "EndPointCommandMetaClass" ->
             EndPointCommandMetaClass_new(cs, name, bases, dcl)
      [] mcs = "SessionCommandMetaClass" ->
             SessionCommandMetaClass_new(cs, name, bases, dcl)
      [] mcs = "ListerMetaClass" ->
             ListerMetaClass_new(cs, name, bases, dcl)
      [] mcs = "ShowInstanceMetaClass" ->
             ShowInstanceMetaClass_new(cs, name, bases, dcl)
      [] mcs = "CheckResultMetaClass" ->
             CheckResultMetaClass_new(cs, name, bases, dcl)
      [] OTHER -> [exc |-> NoExc, dcl |-> dcl]

\* the class statement: [exc, cs, warnings]; on success the new class is the
\* last one of cs
New(cs, mcs, name, bases, dcl, env) ==
    LET built(r, rcs, warnings) ==
            IF Raised(r)
            THEN [exc |-> r.exc, cs |-> rcs, warnings |-> warnings]
            ELSE [exc |-> NoExc,
                  cs |-> Append(rcs, type_new(mcs, name, bases, r.dcl)),
                  warnings |-> warnings]
    IN IF mcs = MultiplexerMetaClass
       THEN CHOOSE out \in
                {built(r, r.cs, r.warnings) :
                    r \in {MultiplexerMetaClass_new(cs, name, bases, dcl,
                                                    env)}} : TRUE
       ELSE CHOOSE out \in
                {built(r, cs, <<>>) :
                    r \in {LeafMetaClass_new(cs, mcs, name, bases, dcl)}} :
                TRUE

(***************************************************************************)
(* The framework's base classes, declared in lmi.scripts.common.command    *)
(* and built by the meta classes above when the package is imported.       *)
(***************************************************************************)
BaseDcl(doc) == ("__module__" :> ModuleName) @@ ("__doc__" :> Str(<<doc>>))

FrameworkDeclarations == <<
    [mcs |-> "ABCMeta", name |-> Str(<<"LmiBaseCommand">>), bases |-> <<>>,
     dcl |-> Put(BaseDcl("base"), "is_end_point", ClassMethod(PyTrue))],
    [mcs |-> "EndPointCommandMetaClass",
     name |-> Str(<<"LmiEndPointCommand">>), bases |-> <<1>>,
     dcl |-> Put(BaseDcl("end point"), "execute", AbstractMethod)],
    [mcs |-> "SessionCommandMetaClass",
     name |-> Str(<<"LmiSessionCommand">>), bases |-> <<2>>,
     dcl |-> BaseDcl("session")],
    [mcs |-> "ListerMetaClass", name |-> Str(<<"LmiLister">>),
     bases |-> <<3>>, dcl |-> BaseDcl("lister")],
    [mcs |-> "ShowInstanceMetaClass", name |-> Str(<<"LmiShowInstance">>),
     bases |-> <<3>>,
     dcl |-> Put(BaseDcl("show instance"), "render", AbstractMethod)],
    [mcs |-> "CheckResultMetaClass", name |-> Str(<<"LmiCheckResult">>),
     bases |-> <<3>>,
     dcl |-> Put(BaseDcl("check result"), "check_result", AbstractMethod)],
    [mcs |-> MultiplexerMetaClass, name |-> Str(<<"LmiCommandMultiplexer">>),
     bases |-> <<1>>,
     dcl |-> Put(BaseDcl("multiplexer"), "is_end_point",
                 ClassMethod(PyFalse))] >>

\* the environment of a class statement that has no COMMANDS to visit
NoChildren == [order |-> <<>>, writable |-> TRUE]

RECURSIVE Import(_, _)
\* the registry after the first n framework declarations have run
Import(decls, n) ==
    IF n = 0 THEN <<>>
    ELSE LET d == decls[n]
         IN CHOOSE after \in {New(cs, d.mcs, d.name, d.bases, d.dcl,
                                   NoChildren).cs :
                                 cs \in {Import(decls, n - 1)}} : TRUE

FrameworkClasses == Import(FrameworkDeclarations, Len(FrameworkDeclarations))

(***************************************************************************)
(* Calling the methods of a built command.                                 *)
(***************************************************************************)
\* an LMIConnection to the host uri
Connection(uri) == [t |-> "LMIConnection", uri |-> uri]
\* LMIUtil.lmi_wrap_cim_namespace(connection, namespace)
lmi_wrap_cim_namespace(connection, namespace) ==
    [t |-> "LMINamespace", connection |-> connection, name |-> namespace]
\* the record of a call: the function called and its first argument
Called(func, arg) == [func |-> func, arg |-> arg]
NotCalled == [func |-> PyNone, arg |-> PyNone]

\* cmd.execute(connection) for an instance cmd of class i: [exc, called]
execute(cs, i, connection) ==
    LET m == getattr_class(cs, i, "execute")
    IN CASE m.t = "_execute" ->
               [exc |-> NoExc,
                called |-> Called(m.dest,
                    IF ~IsNone(m.namespace)
                    THEN lmi_wrap_cim_namespace(connection, m.namespace)
                    ELSE connection)]
         [] m.t = "function" ->
               [exc |-> NoExc, called |-> Called(m, connection)]
         [] OTHER -> [exc |-> PyError("TypeError"), called |-> NotCalled]

\* a CIM instance: its properties, an ordered mapping from names to values
Instance(props) == [t |-> "LMIInstance", props |-> props]
Property(name, value) == [name |-> name, value |-> value]
\* the names inst.properties() returns
PropertyNames(inst) == {inst.props[i].name : i \in DOMAIN inst.props}
\* getattr(inst, prop) for a property the instance has
PropertyValue(inst, prop) ==
    inst.props[CHOOSE i \in DOMAIN inst.props : inst.props[i].name = prop].value

\* the transforms a PROPERTIES pair may name, applied to an instance:
\* [raised, value]
Transform(fn, inst) ==
    CASE fn.t = "function" /\ fn.fname = "get_a" ->
             \* lambda i: i.A, which raises when the instance has no A
             IF <<"A">> \in PropertyNames(inst)
             THEN [raised |-> FALSE, value |-> PropertyValue(inst, <<"A">>)]
             ELSE [raised |-> TRUE, value |-> PyNone]
      [] fn.t = "function" /\ fn.fname = "const" ->
             [raised |-> FALSE, value |-> Str(<<"k">>)]
      [] OTHER -> [raised |-> TRUE, value |-> PyNone]

Unknown == Str(<<"UNKNOWN">>)
Error == Str(<<"ERROR">>)
EmptyString == Str(<<>>)

\* one turn of the loop of _render that lets the exception of a transform
\* escape as the value None instead of the sentinel
RenderPropertyUnguarded(prop, inst) ==
    IF isinstance_basestring(prop)
    THEN [name |-> prop,
          value |-> IF prop.s \notin PropertyNames(inst) THEN Unknown
                    ELSE PropertyValue(inst, prop.s)]
    ELSE [name |-> prop.items[1],
          value |-> Transform(prop.items[2], inst).value]

\* one turn of the loop of _render: [name, value] of the declared entry prop
RenderProperty(prop, inst) ==
    IF isinstance_basestring(prop)
    THEN [name |-> prop,
          value |-> IF prop.s \notin PropertyNames(inst) THEN Unknown
                    ELSE PropertyValue(inst, prop.s)]
    ELSE [name |-> prop.items[1],
          value |-> IF Transform(prop.items[2], inst).raised THEN Error
                    ELSE Transform(prop.items[2], inst).value]

\* the elements of a list or tuple, the characters of a string
Iterate(v) == IF v.t = "str" THEN [i \in DOMAIN v.s |-> Str(<<v.s[i]>>)]
              ELSE v.items

RECURSIVE RenderLoop(_, _, _, _)
\* the loop of _render over the entries left, appending to both lists
RenderLoop(entries, inst, column_names, values) ==
    IF entries = <<>> THEN Tuple(<<List(column_names), List(values)>>)
    ELSE RenderLoop(Tail(entries), inst,
                    Append(column_names,
                           RenderProperty(Head(entries), inst).name),
                    Append(values, RenderProperty(Head(entries), inst).value))

\* _render(self, inst) of _make_render_with_properties(properties)
render_with_properties(properties, inst) ==
    RenderLoop(Iterate(properties), inst, <<>>, <<>>)

\* _render(self, inst) of _make_render_all_properties
render_all_properties(inst) ==
    Tuple(<<List([i \in DOMAIN inst.props |-> Str(inst.props[i].name)]),
            List([i \in DOMAIN inst.props |->
                    IF IsNone(inst.props[i].value) THEN EmptyString
                    ELSE inst.props[i].value])>>)

\* cmd.render(arg) for an instance cmd of class i: [exc, ret]
render(cs, i, arg) ==
    LET m == getattr_class(cs, i, "render")
    IN CASE m.t = "_render" /\ arg.t = "LMIInstance" ->
               [exc |-> NoExc, ret |-> render_with_properties(m.properties, arg)]
         [] m.t = "_render_all" /\ arg.t = "LMIInstance" ->
               [exc |-> NoExc, ret |-> render_all_properties(arg)]
         [] m.t = "_render_dynamic" /\ arg.t = "tuple" ->
               [exc |-> NoExc,
                ret |-> render_with_properties(arg.items[1], arg.items[2])]
         [] m.t = "function" ->
               [exc |-> NoExc, ret |-> Tuple(<<m, arg>>)]
         [] OTHER -> [exc |-> PyError("TypeError"), ret |-> PyNone]

\* an LMIReturnValue holding rval
LMIReturnValue(rval) == [t |-> "LMIReturnValue", rval |-> rval]
\* the options of a call: the least value the command line asks for
Options(least) == [t |-> "options", least |-> least]

\* the predicates EXPECT may name: expect(options, result)
Predicate(fn, options, result) ==
    CASE fn.fname = "positive" -> result.t = "int" /\ result.n > 0
      [] fn.fname = "at_least" ->
             result.t = "int" /\ result.n >= options.least
      [] OTHER -> FALSE

\* _new_expect that does not unwrap an LMIReturnValue
_new_expect_wrapped(m, options, result0) ==
    IF m.calls THEN Predicate(m.expect, options, result0)
    ELSE PyEq(m.expect, result0)

\* _new_expect(self, options, result)
_new_expect(m, options, result0) ==
    LET result == IF result0.t = "LMIReturnValue" THEN result0.rval
                  ELSE result0
    IN IF m.calls THEN Predicate(m.expect, options, result)
       ELSE PyEq(m.expect, result)

\* cmd.check_result(options, result) for an instance cmd of class i:
\* [exc, ret]
check_result(cs, i, options, result) ==
    LET m == getattr_class(cs, i, "check_result")
    IN CASE m.t = "_new_expect" ->
               [exc |-> NoExc,
                ret |-> IF _new_expect(m, options, result) THEN PyTrue
                        ELSE PyFalse]
         [] m.t = "function" ->
               [exc |-> NoExc, ret |-> Tuple(<<m, options, result>>)]
         [] OTHER -> [exc |-> PyError("TypeError"), ret |-> PyNone]

(***************************************************************************)
(* The reply cache of lmi.scripts.hardware.  A namespace object is known   *)
(* by its identity 1..MaxNamespaces; a key is (class_name, method); a      *)
(* reply remembers the namespace object it was fetched from.  A            *)
(* dictionary of the heap maps every key to its reply, NoReply for a key   *)
(* it does not hold.                                                       *)
(***************************************************************************)
Namespaces == 1..MaxNamespaces
ClassNames == {"LMI_Chassis"}
\* get_single_instance and get_all_instances
Methods == {"first_instance", "instances"}
Keys == ClassNames \X Methods
\* getattr(getattr(ns, class_name), method)()
Reply(ns, key) == [from |-> ns, key |-> key]
NoReply == [from |-> 0, key |-> <<>>]
\* {}
EmptyCache == [k \in Keys |-> NoReply]
\* hasattr(_cache_replies, 'cache') is False
NoAttr == [set |-> FALSE, ns |-> 0, cache |-> 0]
\* the local variables of a call that has not begun
NoFrame == [pc |-> "idle", ns |-> 0, key |-> <<>>, old_ns |-> 0,
            cache |-> 0, ret |-> NoReply, exc |-> NoExc, overlapped |-> FALSE]

\* the name of a namespace object: the objects of the model are handles of
\* the same CIM namespace
NamespaceName(ns) == "root/cimv2"

\* a comparison of the namespace objects by their names
differ_by_name(old_ns, ns) == NamespaceName(old_ns) # NamespaceName(ns)

\* old_ns is not ns
is_not(old_ns, ns) == old_ns # ns

\* cache.clear() that leaves the dictionary as it is
keep(h, cache) == h

\* cache.clear()
clear(h, cache) == [h EXCEPT ![cache] = EmptyCache]

\* (class_name, method) in cache
has_key(h, cache, key) == h[cache][key] # NoReply

\* one line of _cache_replies run by a thread with the local variables f;
\* raises says whether the method invoked at line 51 raises:
\* [attr, heap, f, invoked]
Line(a, h, f, raises) ==
    LET out(a1, h1, f1) == [attr |-> a1, heap |-> h1, f |-> f1,
                            invoked |-> FALSE]
        goto(pc) == [f EXCEPT !.pc = pc]
    IN CASE f.pc = "42" ->
                out(a, h, goto(IF ~a.set THEN "43" ELSE "44"))
         [] f.pc = "43" ->
                out([set |-> TRUE, ns |-> f.ns, cache |-> Len(h) + 1],
                    Append(h, EmptyCache), goto("44"))
         [] f.pc = "44" ->
                out(a, h, [f EXCEPT !.pc = "45", !.old_ns = a.ns,
                                    !.cache = a.cache])
         [] f.pc = "45" ->
                out(a, h, goto(IF is_not(f.old_ns, f.ns) THEN "47" ELSE "49"))
         [] f.pc = "47" ->
                out(a, clear(h, f.cache), goto("48"))
         [] f.pc = "48" ->
                out([set |-> TRUE, ns |-> f.ns, cache |-> f.cache], h,
                    goto("49"))
         [] f.pc = "49" ->
                out(a, h, goto(IF ~has_key(h, f.cache, f.key) THEN "51"
                               ELSE "52"))
         [] f.pc = "51" ->
                IF raises
                THEN [attr |-> a, heap |-> h, invoked |-> TRUE,
                      f |-> [f EXCEPT !.pc = "done",
                                      !.exc = PyError("Exception")]]
                ELSE [attr |-> a, invoked |-> TRUE,
                      heap |-> [h EXCEPT ![f.cache][f.key] =
                                             Reply(f.ns, f.key)],
                      f |-> goto("52")]
         [] f.pc = "52" ->
                IF h[f.cache][f.key] = NoReply
                THEN out(a, h, [f EXCEPT !.pc = "done",
                                         !.exc = PyError("KeyError")])
                ELSE out(a, h, [f EXCEPT !.pc = "done",
                                         !.ret = h[f.cache][f.key]])

\* the local variables of a call _cache_replies(ns, class_name, method)
\* about to run line 42
Enter(ns, key) == [NoFrame EXCEPT !.pc = "42", !.ns = ns, !.key = key]

RECURSIVE _cache_replies(_, _, _, _)
\* the whole call, run without interruption: [attr, heap, f, invoked]
_cache_replies(a, h, f, raises) ==
    IF f.pc = "done"
    THEN [attr |-> a, heap |-> h, f |-> f, invoked |-> FALSE]
    ELSE CHOOSE out \in
            {[_cache_replies(s.attr, s.heap, s.f, raises)
                 EXCEPT !.invoked = @ \/ s.invoked] :
                s \in {Line(a, h, f, raises)}} : TRUE

\* the threads that call into the library
Threads == {1, 2}

\* what has happened since the namespace object of the calls changed last:
\* prev is the namespace object of the latest call, invoked[k] the number
\* of times the method of key k was invoked, returned[k] whether one of
\* these invocations returned, again[k] whether the method was invoked once
\* more after that, hit whether the latest call found its key in the
\* cache; switched tells whether the namespace object has ever changed,
\* raced whether a thread has ever run a line of the function while another
\* thread was inside it
NoHist == [prev |-> 0,
           invoked |-> [k \in Keys |-> 0],
           returned |-> [k \in Keys |-> FALSE],
           again |-> [k \in Keys |-> FALSE],
           hit |-> FALSE,
           switched |-> FALSE,
           raced |-> FALSE]

\* the record of a call with the namespace object ns about to begin
Began(hs, ns) ==
    IF hs.prev = ns THEN hs
    ELSE [NoHist EXCEPT !.prev = ns,
                        !.switched = hs.switched \/ hs.prev # 0,
                        !.raced = hs.raced]

\* the record after a call for key with the outcome r of _cache_replies
Ended(hs, key, r) ==
    IF ~r.invoked THEN [hs EXCEPT !.hit = r.f.exc.type = "none"]
    ELSE [hs EXCEPT !.hit = FALSE,
                    !.invoked[key] = @ + 1,
                    !.again[key] = @ \/ hs.returned[key],
                    !.returned[key] = @ \/ r.f.exc.type = "none"]

(***************************************************************************)
(* The state machine.  `last` is the latest operation: a class statement   *)
(* (op "new") with its declaration and outcome, or a method call.          *)
(***************************************************************************)
Absent == [t |-> "<absent>"]
\* the dictionary d with attribute k, unless the declaration leaves k out
With(d, k, v) == IF v.t = "<absent>" THEN d ELSE Put(d, k, v)

NoDecl == [mcs |-> "", name |-> PyNone, bases |-> <<>>, dcl |-> EmptyDict]
Idle == [op |-> "import", decl |-> NoDecl, exc |-> NoExc, cls |-> 0,
         warnings |-> <<>>, called |-> NotCalled, arg |-> PyNone,
         ret |-> PyNone]

Init ==
    /\ classes = FrameworkClasses
    /\ declared = [i \in DOMAIN FrameworkDeclarations |->
                      FrameworkDeclarations[i].dcl]
    /\ last = Idle
    /\ cache_attr = NoAttr
    /\ heap = <<>>
    /\ frames = [t \in Threads |-> NoFrame]
    /\ hist = NoHist

UserClasses == (Len(FrameworkClasses) + 1)..Len(classes)
CommandName(n) == Str(<<"Cmd", ToString(n)>>)

\* the class statement class <name>(<bases>): <dcl> under metaclass mcs
Declare(mcs, bases, dcl, env) ==
    LET name == CommandName(Len(classes) + 1)
        full == Put(dcl, "__module__", ModuleName)
    IN /\ Len(classes) < Len(FrameworkClasses) + MaxClasses
       /\ UNCHANGED hw
       /\ \E new \in {New(classes, mcs, name, bases, full, env)} :
            /\ classes' = new.cs
            /\ declared' = IF new.exc.type = "none"
                           THEN Append(declared, full) ELSE declared
            /\ last' = [Idle EXCEPT
                          !.op = "new",
                          !.decl = [mcs |-> mcs, name |-> name,
                                    bases |-> bases, dcl |-> full],
                          !.exc = new.exc,
                          !.cls = IF new.exc.type = "none"
                                  THEN Len(new.cs) ELSE 0,
                          !.warnings = new.warnings]

\* the documentation string of the class about to be declared
OwnDoc == Str(<<"about Cmd", ToString(Len(classes) + 1)>>)
CallableChoices == <<Absent, Func("f"), Str(<<"h", "w", ":", "f">>)>>
NamespaceChoices == <<Absent, PyFalse, Str(<<"root/interop">>)>>
ExecuteChoices == <<Absent, Func("own_execute")>>
Connections == {Connection("host")}

SessionMetaClasses == {"SessionCommandMetaClass", "ListerMetaClass",
                       "ShowInstanceMetaClass", "CheckResultMetaClass"}

\* an end-point or session command declared with CALLABLE, NAMESPACE and
\* a hand-written execute, each present or not
DeclareEndPoint ==
    \E b \in DOMAIN classes :
    \E c \in DOMAIN CallableChoices, n \in DOMAIN NamespaceChoices,
       e \in DOMAIN ExecuteChoices :
        /\ classes[b].mcs \in {"EndPointCommandMetaClass",
                               "SessionCommandMetaClass"}
        /\ classes[b].mcs = "EndPointCommandMetaClass" => n = 1
        /\ Declare(classes[b].mcs, <<b>>,
                   With(With(With(EmptyDict,
                       "CALLABLE", CallableChoices[c]),
                       "NAMESPACE", NamespaceChoices[n]),
                       "execute", ExecuteChoices[e]),
                   NoChildren)

\* cmd.execute(connection) on an instance of a user class
CallExecute ==
    \E i \in UserClasses, conn \in Connections :
        \E r \in {execute(classes, i, conn)} :
           /\ last' = [Idle EXCEPT !.op = "execute", !.cls = i,
                                   !.arg = conn, !.exc = r.exc,
                                   !.called = r.called]
           /\ UNCHANGED <<classes, declared, hw>>

Next == DeclareEndPoint \/ CallExecute

Spec == Init /\ [][Next]_vars

(***************************************************************************)
(* Show-instance commands: the render strategies.                          *)
(***************************************************************************)
PropertiesChoices == <<Absent, List(<<Str(<<"A">>)>>)>>
DynamicChoices == <<Absent, PyTrue, PyFalse>>
RenderChoices == <<Absent, Func("own_render")>>
\* the instances commands are asked to render
Instances == <<
    Instance(<<Property(<<"A">>, Int(1)), Property(<<"B">>, PyNone)>>),
    Instance(<<Property(<<"B">>, Int(2))>>) >>

\* a show-instance command declared with PROPERTIES, DYNAMIC_PROPERTIES
\* and a hand-written render, each present or not
DeclareShowInstance ==
    \E b \in DOMAIN classes :
    \E p \in DOMAIN PropertiesChoices, d \in DOMAIN DynamicChoices,
       r \in DOMAIN RenderChoices :
        /\ classes[b].mcs = "ShowInstanceMetaClass"
        /\ Declare(classes[b].mcs, <<b>>,
                   With(With(With(With(EmptyDict,
                       "CALLABLE", Func("f")),
                       "PROPERTIES", PropertiesChoices[p]),
                       "DYNAMIC_PROPERTIES", DynamicChoices[d]),
                       "render", RenderChoices[r]),
                   NoChildren)

\* what execute hands to render: the instance, or with DYNAMIC_PROPERTIES
\* the pair (property list, instance)
RenderArguments(inst) == <<inst, Tuple(<<List(<<Str(<<"B">>)>>), inst>>)>>

\* cmd.render(arg) on an instance of a user class
CallRender ==
    \E i \in UserClasses, n \in DOMAIN Instances, k \in 1..2 :
        \E arg \in {RenderArguments(Instances[n])[k]} :
        \E r \in {render(classes, i, arg)} :
           /\ last' = [Idle EXCEPT !.op = "render", !.cls = i, !.arg = arg,
                                   !.exc = r.exc, !.ret = r.ret]
           /\ UNCHANGED <<classes, declared, hw>>

NextShow == DeclareShowInstance \/ CallRender

SpecShow == Init /\ [][NextShow]_vars

(***************************************************************************)
(* The fixed-list render: one command with a PROPERTIES list of up to      *)
(* MaxProperties entries, rendering instances.                             *)
(***************************************************************************)
MaxProperties == 2

\* the entries a PROPERTIES list is made of
PropertyEntries == <<
    Str(<<"A">>),
    Str(<<"B">>),
    Tuple(<<Str(<<"X">>), Func("get_a")>>),
    Tuple(<<Str(<<"Y">>), Func("raises")>>) >>

\* the lists of entry indices of length n
RECURSIVE IndexLists(_)
IndexLists(n) ==
    IF n = 0 THEN {<<>>}
    ELSE {Append(l, e) : l \in IndexLists(n - 1), e \in DOMAIN PropertyEntries}

RenderedInstances == <<
    Instance(<<Property(<<"A">>, Int(1)), Property(<<"B">>, PyNone)>>),
    Instance(<<Property(<<"B">>, Int(2))>>),
    Instance(<<Property(<<"A">>, Unknown)>>),
    Instance(<<>>) >>

\* the command under test, declared with a list of PROPERTIES
DeclareFixedList ==
    \E n \in 0..MaxProperties : \E l \in IndexLists(n) :
        /\ UserClasses = {}
        /\ Declare("ShowInstanceMetaClass", <<5>>,
                   With(With(EmptyDict, "CALLABLE", Func("f")),
                        "PROPERTIES",
                        List([i \in DOMAIN l |-> PropertyEntries[l[i]]])),
                   NoChildren)

\* cmd.render(inst) on the command under test
RenderInstance ==
    \E i \in UserClasses, n \in DOMAIN RenderedInstances :
        \E r \in {render(classes, i, RenderedInstances[n])} :
           /\ last' = [Idle EXCEPT !.op = "render", !.cls = i,
                                   !.arg = RenderedInstances[n],
                                   !.exc = r.exc, !.ret = r.ret]
           /\ UNCHANGED <<classes, declared, hw>>

NextRender == DeclareFixedList \/ RenderInstance

SpecRender == Init /\ [][NextRender]_vars

(***************************************************************************)
(* Check-result commands: one command declared with EXPECT, checking       *)
(* results.                                                                *)
(***************************************************************************)
\* the largest number a result or an option holds
MaxValue == 2

ExpectChoices == <<Absent, Int(1), PyNone, Func("positive"), Func("at_least")>>
CheckResultChoices == <<Absent, Func("own_check_result")>>

\* a check-result command declared with EXPECT and a hand-written
\* check_result, each present or not
DeclareCheckResult ==
    \E b \in DOMAIN classes :
    \E e \in DOMAIN ExpectChoices, c \in DOMAIN CheckResultChoices :
        /\ classes[b].mcs = "CheckResultMetaClass"
        /\ UserClasses = {}
        /\ Declare(classes[b].mcs, <<b>>,
                   With(With(With(EmptyDict,
                       "CALLABLE", Func("f")),
                       "EXPECT", ExpectChoices[e]),
                       "check_result", CheckResultChoices[c]),
                   NoChildren)

\* what the associated function returned: a number or None, bare or in an
\* LMIReturnValue
Results(n, wrapped, none) ==
    LET v == IF none THEN PyNone ELSE Int(n)
    IN IF wrapped THEN LMIReturnValue(v) ELSE v

\* cmd.check_result(options, result) on an instance of a user class
CallCheckResult ==
    \E i \in UserClasses, least \in 0..MaxValue, n \in 0..MaxValue,
       wrapped \in BOOLEAN, none \in BOOLEAN :
        \E result \in {Results(n, wrapped, none)} :
        \E r \in {check_result(classes, i, Options(least), result)} :
           /\ none => n = 0
           /\ last' = [Idle EXCEPT !.op = "check_result", !.cls = i,
                                   !.arg = Tuple(<<Options(least), result>>),
                                   !.exc = r.exc, !.ret = r.ret]
           /\ UNCHANGED <<classes, declared, hw>>

NextCheck == DeclareCheckResult \/ CallCheckResult

SpecCheck == Init /\ [][NextCheck]_vars

(***************************************************************************)
(* Node commands: the command tree.                                        *)
(***************************************************************************)
\* the index of command.LmiLister and command.LmiCommandMultiplexer
LmiLister == 4
LmiCommandMultiplexer == 7

\* the classes a COMMANDS dictionary of the model refers to
Children == {LmiLister} \cup UserClasses

\* the COMMANDS dictionaries: none, one child, a bad name, two children,
\* a child and a bad name
CommandsChoices ==
    {<<Absent>>}
    \cup {<<Dict(<<<<Str(<<"a">>), ClassRef(x)>>>>)>> : x \in Children}
    \cup {<<Dict(<<<<Str(<<"B", "a", "d", " ", "N", "a", "m", "e", "!">>),
                     ClassRef(LmiLister)>>>>)>>}
    \cup {<<Dict(<<<<Str(<<"a">>), ClassRef(x)>>,
                   <<Str(<<"b">>), ClassRef(y)>>>>)>> :
             x \in Children, y \in Children}
    \cup {<<Dict(<<<<Str(<<"a">>), ClassRef(x)>>,
                   <<Str(<<"B", "a", "d", " ", "N", "a", "m", "e", "!">>),
                     ClassRef(LmiLister)>>>>)>> : x \in Children}

\* the orders in which a dictionary of n items is iterated
Orders(n) == {o \in [1..n -> 1..n] : \A i, j \in 1..n : o[i] = o[j] => i = j}

\* a node command declared with COMMANDS and a documentation string, each
\* present or not, on LmiBaseCommand (with __metaclass__ set; there, with
\* one child at most) or on LmiCommandMultiplexer
DeclareMultiplexer ==
    \E b \in {LmiBaseCommand, LmiCommandMultiplexer}, doc \in BOOLEAN,
       writable \in BOOLEAN :
    \E c \in CommandsChoices :
    \E order \in Orders(IF c[1].t = "dict" THEN Len(c[1].pairs) ELSE 0) :
        /\ b = LmiBaseCommand => Len(order) < 2
        /\ Declare(MultiplexerMetaClass, <<b>>,
                   With(With(EmptyDict,
                       "__doc__", IF doc THEN OwnDoc ELSE Absent),
                       "COMMANDS", c[1]),
                   [order |-> order, writable |-> writable])

NextTree == DeclareMultiplexer

SpecTree == Init /\ [][NextTree]_vars

(***************************************************************************)
(* The reply cache called by one thread, one call at a time.               *)
(***************************************************************************)
\* _cache_replies(ns, class_name, method), the method raising or not
CacheReplies ==
    \E ns \in Namespaces, key \in Keys, raises \in BOOLEAN :
    \E r \in {_cache_replies(cache_attr, heap, Enter(ns, key), raises)} :
    \E began \in {Began(hist, ns)} :
        /\ r.invoked => began.invoked[key] < MaxInvocations
        /\ cache_attr' = r.attr
        /\ heap' = r.heap
        /\ frames' = [frames EXCEPT ![1] = r.f]
        /\ hist' = Ended(began, key, r)
        /\ UNCHANGED <<classes, declared, last>>

NextCache == CacheReplies

SpecCache == Init /\ [][NextCache]_vars

(***************************************************************************)
(* The reply cache called by several threads: a thread may be suspended    *)
(* between any two lines of the function.                                  *)
(***************************************************************************)
\* the thread t is inside the function
Inside(t) == frames[t].pc \notin {"idle", "done"}

\* a thread calls get_single_instance(ns, class_name), that is
\* _cache_replies(ns, class_name, 'first_instance')
Call ==
    \E t \in Threads, ns \in Namespaces,
       key \in ClassNames \X {"first_instance"} :
        /\ frames[t].pc = "idle"
        /\ frames' = [frames EXCEPT ![t] = Enter(ns, key)]
        /\ UNCHANGED <<classes, declared, last, cache_attr, heap, hist>>

\* a thread runs its next line
Step ==
    \E t \in Threads, raises \in BOOLEAN :
        /\ Inside(t)
        /\ raises => frames[t].pc = "51"
        /\ \E r \in {Line(cache_attr, heap, frames[t], raises)} :
              /\ cache_attr' = r.attr
              /\ heap' = r.heap
              /\ frames' = [frames EXCEPT ![t] = r.f]
        /\ hist' = [hist EXCEPT !.raced =
                        @ \/ \E u \in Threads \ {t} : Inside(u)]
        /\ UNCHANGED <<classes, declared, last>>

\* the caller takes the reply or the exception
Return ==
    \E t \in Threads :
        /\ frames[t].pc = "done"
        /\ frames' = [frames EXCEPT ![t] = NoFrame]
        /\ UNCHANGED <<classes, declared, last, cache_attr, heap, hist>>

NextThreads == Call \/ Step \/ Return

SpecThreads == Init /\ [][NextThreads]_vars

(***************************************************************************)
(* Properties.                                                             *)

(***************************************************************************)
(* Malformed declarations: one attribute of a class body under test, well  *)
(* formed or not, with or without a documentation string.                  *)
(***************************************************************************)
\* the base class, the attribute and its value
AttributeChoices == <<
    [base |-> 2, attr |-> "CALLABLE", value |-> Func("f")],
    [base |-> 3, attr |-> "CALLABLE", value |-> Str(<<"h", "w", ":", "f">>)],
    [base |-> 2, attr |-> "CALLABLE", value |-> Int(7)],
    [base |-> 3, attr |-> "CALLABLE", value |-> Str(<<"h", "w", "f">>)],
    [base |-> 3, attr |-> "CALLABLE", value |-> Str(<<"h", "w", ":", "z">>)],
    [base |-> 3, attr |-> "CALLABLE", value |-> Str(<<"h", "w", ":", "n">>)],
    [base |-> 4, attr |-> "COLUMNS", value |-> Str(<<"a">>)],
    [base |-> 4, attr |-> "COLUMNS", value |-> List(<<Str(<<"a">>)>>)],
    [base |-> 5, attr |-> "PROPERTIES", value |-> List(<<Int(1)>>)],
    [base |-> 5, attr |-> "PROPERTIES", value |-> Int(3)],
    [base |-> 2, attr |-> "OWN_USAGE", value |-> PyTrue],
    [base |-> 7, attr |-> "COMMANDS", value |-> List(<<>>)],
    [base |-> 7, attr |-> "COMMANDS",
     value |-> Dict(<<<<Str(<<"B", "a", "d", " ", "N", "a", "m", "e", "!">>),
                        ClassRef(4)>>>>)],
    [base |-> 7, attr |-> "COMMANDS",
     value |-> Dict(<<<<Str(<<"a">>), Int(7)>>>>)],
    [base |-> 7, attr |-> "COMMANDS",
     value |-> Dict(<<<<Str(<<"a">>), ClassRef(4)>>>>)] >>

\* a command declared on a framework class with the attribute under test
DeclareWithAttribute ==
    \E k \in DOMAIN AttributeChoices, doc \in BOOLEAN :
    \E c \in {AttributeChoices[k]} :
        /\ c.base \in DOMAIN classes
        /\ Declare(classes[c.base].mcs, <<c.base>>,
                   With(With(With(EmptyDict,
                       "__doc__", IF doc THEN OwnDoc ELSE Absent),
                       "CALLABLE",
                       IF classes[c.base].mcs # MultiplexerMetaClass
                          /\ c.attr # "CALLABLE"
                       THEN Func("f") ELSE Absent),
                       c.attr, c.value),
                   [order |-> IF c.value.t = "dict" THEN <<1>> ELSE <<>>,
                    writable |-> TRUE])

NextMalformed == DeclareWithAttribute

SpecMalformed == Init /\ [][NextMalformed]_vars

(***************************************************************************)
LeafMetaClasses == {"EndPointCommandMetaClass"} \cup SessionMetaClasses
\* the latest operation is a class statement
Declared == last.op = "new"
\* ... that built the class last.cls
Built == last.op = "new" /\ last.cls # 0
\* x and y are the same value
Same(x, y) == x.t = y.t /\ x = y
\* v is a method with a body
ConcreteMethod(v) ==
    v.t \in {"function", "_execute", "_render", "_render_all",
             "_render_dynamic", "_new_expect"}
\* the method a declaration has before any meta class has run: the one of
\* its own body, else the one it inherits
DefinedMethod(decl, m) ==
    IF Has(decl.dcl, m) THEN decl.dcl[m]
    ELSE getattr_bases(classes, decl.bases, m)

\* C1: a leaf declaration (end point, session, lister, show instance, check
\* result) that does not supply CALLABLE fails with the missing-callable
\* definition error naming the command, and no class is produced.
MissingCallableIsRejected ==
    (Declared /\ last.decl.mcs \in LeafMetaClasses
              /\ ~Has(last.decl.dcl, "CALLABLE"))
    => /\ last.exc.type = "LmiCommandMissingCallable"
       /\ last.exc.cmd = last.decl.name
       /\ last.cls = 0

\* C3: first concrete definition wins: when a declaration already has a
\* concrete execute, render or check_result, written in its own body or
\* inherited from a base, the class that is built still has that method.
FirstConcreteDefinitionWins ==
    Built =>
        \A m \in {"execute", "render", "check_result"} :
            ConcreteMethod(DefinedMethod(last.decl, m))
            => Same(getattr_class(classes, last.cls, m),
                    DefinedMethod(last.decl, m))

\* the class i got its execute from its own CALLABLE
ExecuteSynthesized(i) ==
    /\ Has(declared[i], "CALLABLE")
    /\ Has(classes[i].dict, "execute")
    /\ classes[i].dict["execute"].t = "_execute"

\* C8: a session command whose execute was synthesized from CALLABLE hands
\* the associated function the connection wrapped into NAMESPACE (into
\* root/cimv2 when NAMESPACE is left out), and the raw connection when
\* NAMESPACE is False.
NamespaceWrapping ==
    (last.op = "execute" /\ classes[last.cls].mcs \in SessionMetaClasses
                         /\ ExecuteSynthesized(last.cls))
    => LET dcl == declared[last.cls]
       IN /\ last.exc.type = "none"
          /\ last.called.func.t = "function"
          /\ last.called.func.fname = "f"
          /\ IF ~Has(dcl, "NAMESPACE")
             THEN Same(last.called.arg,
                       lmi_wrap_cim_namespace(last.arg, DefaultNamespace))
             ELSE IF Same(dcl["NAMESPACE"], PyFalse)
             THEN Same(last.called.arg, last.arg)
             ELSE Same(last.called.arg,
                       lmi_wrap_cim_namespace(last.arg, dcl["NAMESPACE"]))

\* C8 witness: a session command declared with CALLABLE and a NAMESPACE of
\* its own was executed, and another one with NAMESPACE False could be
NamespaceWrappingWitness ==
    /\ last.op = "execute"
    /\ classes[last.cls].mcs = "SessionCommandMetaClass"
    /\ ExecuteSynthesized(last.cls)
    /\ Has(declared[last.cls], "NAMESPACE")
    /\ last.called.arg.t = "LMINamespace"
    /\ \E j \in UserClasses :
          /\ ExecuteSynthesized(j)
          /\ Has(declared[j], "NAMESPACE")
          /\ Same(declared[j]["NAMESPACE"], PyFalse)

\* the declaration decl sets DYNAMIC_PROPERTIES to True
SetsDynamic(dcl) ==
    Has(dcl, "DYNAMIC_PROPERTIES") /\ IsTrue(dcl["DYNAMIC_PROPERTIES"])

\* the declaration selects the default render strategy and has no render
\* with a body
AllPropertiesDeclared(decl) ==
    /\ decl.mcs = "ShowInstanceMetaClass"
    /\ ~Has(decl.dcl, "PROPERTIES")
    /\ ~Has(decl.dcl, "DYNAMIC_PROPERTIES")
    /\ ~ConcreteMethod(DefinedMethod(decl, "render"))

\* C4: a show-instance declaration with neither PROPERTIES nor
\* DYNAMIC_PROPERTIES and no concrete render gets a callable render, which
\* returns the names of the instance's properties in their order and their
\* values, None replaced by the empty string.
AllPropertiesRender ==
    /\ (Built /\ AllPropertiesDeclared(last.decl))
       => callable(getattr_class(classes, last.cls, "render"))
    /\ (/\ last.op = "render"
        /\ last.arg.t = "LMIInstance"
        /\ classes[last.cls].mcs = "ShowInstanceMetaClass"
        /\ ~Has(declared[last.cls], "PROPERTIES")
        /\ ~Has(declared[last.cls], "DYNAMIC_PROPERTIES")
        /\ ~Has(declared[last.cls], "render"))
       => /\ last.exc.type = "none"
          /\ last.ret.t = "tuple"
          /\ LET columns == last.ret.items[1].items
                 values == last.ret.items[2].items
                 props == last.arg.props
             IN /\ Len(columns) = Len(props) /\ Len(values) = Len(props)
                /\ \A i \in DOMAIN props :
                      /\ Same(columns[i], Str(props[i].name))
                      /\ Same(values[i], IF IsNone(props[i].value)
                                         THEN EmptyString
                                         ELSE props[i].value)

\* the render strategy the class i was built with
Strategy(i) == classes[i].dict["render"].t

\* C5: a declaration that sets both PROPERTIES and DYNAMIC_PROPERTIES (True)
\* fails with a definition error naming it; a show-instance command that is
\* built has the one render strategy its declaration selects: the fixed
\* list only with PROPERTIES, the dynamic list only with DYNAMIC_PROPERTIES.
ExclusiveRenderStrategies ==
    (Declared /\ last.decl.mcs = "ShowInstanceMetaClass")
    => LET dcl == last.decl.dcl
       IN /\ (SetsDynamic(dcl) /\ Has(dcl, "PROPERTIES"))
             => /\ last.exc.type \in DefinitionErrors
                /\ last.exc.cmd = last.decl.name
                /\ last.cls = 0
          /\ last.cls # 0
             => /\ Strategy(last.cls) = "_render"
                   <=> (Has(dcl, "PROPERTIES") /\ ~SetsDynamic(dcl))
                /\ Strategy(last.cls) = "_render_dynamic"
                   <=> (SetsDynamic(dcl) /\ ~Has(dcl, "PROPERTIES"))

\* C5 witness: a declaration with both attributes was rejected
ExclusiveRenderStrategiesWitness ==
    /\ Declared
    /\ SetsDynamic(last.decl.dcl) /\ Has(last.decl.dcl, "PROPERTIES")
    /\ last.exc.type = "LmiCommandError"

\* C6: the fixed-list render never raises and returns as many columns and
\* values as PROPERTIES has entries: column i is the declared name, value i
\* is "UNKNOWN" for a plain name the instance lacks, "ERROR" for a pair
\* whose transform raises, and else the value looked up or transformed,
\* whatever the other entries are.
FixedListRender ==
    (last.op = "render" /\ Strategy(last.cls) = "_render")
    => /\ last.exc.type = "none"
       /\ last.ret.t = "tuple"
       /\ LET props == declared[last.cls]["PROPERTIES"].items
              columns == last.ret.items[1].items
              values == last.ret.items[2].items
              inst == last.arg
          IN /\ Len(columns) = Len(props) /\ Len(values) = Len(props)
             /\ \A i \in DOMAIN props :
                  IF props[i].t = "str"
                  THEN /\ Same(columns[i], props[i])
                       /\ IF props[i].s \in PropertyNames(inst)
                          THEN Same(values[i],
                                    PropertyValue(inst, props[i].s))
                          ELSE Same(values[i], Unknown)
                  ELSE /\ Same(columns[i], props[i].items[1])
                       /\ IF Transform(props[i].items[2], inst).raised
                          THEN Same(values[i], Error)
                          ELSE Same(values[i],
                                    Transform(props[i].items[2], inst).value)

\* C6 witness: a list of two entries was rendered with a sentinel at one
\* position and a proper value at the other
FixedListRenderWitness ==
    /\ last.op = "render" /\ Strategy(last.cls) = "_render"
    /\ last.exc.type = "none"
    /\ Len(last.ret.items[2].items) = 2
    /\ \E i, j \in 1..2 :
          /\ Same(last.ret.items[2].items[i], Error)
          /\ Same(last.ret.items[2].items[j], Int(2))

\* C7: the synthesized check_result unwraps an LMIReturnValue, then returns
\* EXPECT(options, value) when EXPECT is callable and else whether the value
\* equals EXPECT.
CheckResultChecks ==
    (last.op = "check_result" /\ Has(declared[last.cls], "EXPECT"))
    => LET expect == declared[last.cls]["EXPECT"]
           options == last.arg.items[1]
           result == last.arg.items[2]
           value == IF result.t = "LMIReturnValue" THEN result.rval
                    ELSE result
           passed == IF expect.t = "function"
                     THEN Predicate(expect, options, value)
                     ELSE Same(value, expect)
       IN /\ last.exc.type = "none"
          /\ last.ret.t = "bool"
          /\ last.ret.b = passed

\* C7 witness: a wrapped result passed a literal EXPECT, or a callable one
\* that reads the options
CheckResultChecksWitness ==
    /\ last.op = "check_result" /\ Has(declared[last.cls], "EXPECT")
    /\ last.arg.items[2].t = "LMIReturnValue"
    /\ last.ret.t = "bool" /\ last.ret.b
    /\ declared[last.cls]["EXPECT"].t = "function"
    /\ declared[last.cls]["EXPECT"].fname = "at_least"
    /\ last.arg.items[1].least > 0

\* the latest operation is the class statement of a node command
DeclaredNode == Declared /\ last.decl.mcs = MultiplexerMetaClass
\* none of the bases of the declaration was built by MultiplexerMetaClass
RootNode(decl) ==
    \A k \in DOMAIN decl.bases :
        classes[decl.bases[k]].mcs # "MultiplexerMetaClass"
\* cmds is a dictionary of well-named command classes
ValidCommands(cmds) ==
    /\ cmds.t = "dict"
    /\ \A k \in DOMAIN cmds.pairs :
          /\ cmds.pairs[k][1].t = "str"
          /\ \A c \in DOMAIN cmds.pairs[k][1].s :
                cmds.pairs[k][1].s[c] \in Letters
          /\ cmds.pairs[k][2].t = "class"
\* some key of cmds is a string that is no command name
BadlyNamed(cmds) ==
    /\ cmds.t = "dict"
    /\ \E k \in DOMAIN cmds.pairs :
          /\ cmds.pairs[k][1].t = "str"
          /\ \E c \in DOMAIN cmds.pairs[k][1].s :
                cmds.pairs[k][1].s[c] \notin Letters

Doc(i) == classes[i].dict["__doc__"]
\* C9: a class statement of a node leaves alone every leaf command and
\* every command that has a documentation string of its own: only a node
\* without documentation may receive the parent's.
DocumentationPropagation ==
    [][\A i \in DOMAIN classes :
          (is_end_point(classes, i) \/ ~IsNone(Doc(i)))
          => classes'[i] = classes[i]]_vars

\* C10: a node declaration (on a built node, so that COMMANDS is read)
\* without a documentation string whose COMMANDS is valid is built, with a
\* warning about the missing description.
DocumentationIsAdvisory ==
    (/\ DeclaredNode /\ ~RootNode(last.decl)
     /\ ~Has(last.decl.dcl, "__doc__")
     /\ Has(last.decl.dcl, "COMMANDS")
     /\ ValidCommands(last.decl.dcl["COMMANDS"]))
    => /\ last.exc.type = "none"
       /\ last.cls # 0
       /\ \E k \in DOMAIN last.warnings :
             last.warnings[k] = MissingDescription

\* the class body dcl is malformed in a way the meta classes can detect
Malformed(dcl) ==
    \/ /\ Has(dcl, "CALLABLE")
       /\ \/ dcl["CALLABLE"].t \notin {"function", "str"}
          \/ /\ dcl["CALLABLE"].t = "str"
             /\ LET match == RE_CALLABLE_match(dcl["CALLABLE"].s)
                IN match.matched
                   => import_attr(match.module, match.func).t = "<missing>"
    \/ /\ Has(dcl, "COLUMNS")
       /\ dcl["COLUMNS"].t \in {"list", "tuple"}
          => \E k \in DOMAIN dcl["COLUMNS"].items :
                dcl["COLUMNS"].items[k].t # "str"
    \/ /\ Has(dcl, "PROPERTIES")
       /\ dcl["PROPERTIES"].t \in {"list", "tuple"}
          => \E k \in DOMAIN dcl["PROPERTIES"].items :
                dcl["PROPERTIES"].items[k].t \notin {"str", "tuple", "list"}
    \/ /\ Has(dcl, "COMMANDS")
       /\ ~ValidCommands(dcl["COMMANDS"])
    \/ /\ Has(dcl, "OWN_USAGE")
       /\ IsTrue(dcl["OWN_USAGE"])
       /\ ~Has(dcl, "__doc__")

\* C11: a malformed declaration is not built and fails with a command
\* definition error that carries the module and the name of the command;
\* no failure of another kind escapes a class statement.
MalformedIsDefinitionError ==
    /\ (Declared /\ Malformed(last.decl.dcl))
       => /\ last.cls = 0
          /\ last.exc.type \in DefinitionErrors
          /\ last.exc.module = last.decl.dcl["__module__"]
          /\ last.exc.cmd = last.decl.name
    /\ (Declared /\ last.exc.type # "none")
       => last.exc.type \in DefinitionErrors

\* the declaration attributes the meta class mcs handles
Processed(mcs) ==
    CASE mcs = "EndPointCommandMetaClass" -> {"CALLABLE", "OWN_USAGE"}
      [] mcs = "SessionCommandMetaClass" ->
             {"CALLABLE", "OWN_USAGE", "NAMESPACE"}
      [] mcs = "ListerMetaClass" ->
             {"CALLABLE", "OWN_USAGE", "NAMESPACE", "COLUMNS"}
      [] mcs = "ShowInstanceMetaClass" ->
             {"CALLABLE", "OWN_USAGE", "NAMESPACE", "PROPERTIES",
              "DYNAMIC_PROPERTIES"}
      [] mcs = "CheckResultMetaClass" ->
             {"CALLABLE", "OWN_USAGE", "NAMESPACE", "EXPECT"}
      [] mcs = "MultiplexerMetaClass" -> {"COMMANDS", "OWN_USAGE"}
      [] OTHER -> {}

\* C12: the dictionary of a class that was built holds none of the
\* declaration attributes its meta class handles (for a node that is not
\* root: COMMANDS and OWN_USAGE).
AttributesConsumed ==
    (Built /\ (last.decl.mcs = "MultiplexerMetaClass"
                  => ~RootNode(last.decl)))
    => \A a \in Processed(last.decl.mcs) :
          ~Has(classes[last.cls].dict, a)

\* C13: no class statement, whether it builds a class or fails, changes a
\* class that exists already.
BuiltClassesAreImmutable ==
    [][\A i \in DOMAIN classes : classes'[i] = classes[i]]_vars

\* every call that has returned a reply returned one fetched for its own
\* key from its own namespace object
RepliesAreFresh ==
    \A t \in Threads :
        (frames[t].pc = "done" /\ frames[t].exc.type = "none")
        => /\ frames[t].ret.from = frames[t].ns
           /\ frames[t].ret.key = frames[t].key

\* C14 (as stated): calls made one at a time return a reply fetched from
\* their own namespace object, and while the namespace object does not
\* change the method of a key is invoked at most once.
FreshAndInvokedOnce ==
    /\ RepliesAreFresh
    /\ \A k \in Keys : hist.invoked[k] <= 1

\* C14 (amended): calls made one at a time return a reply fetched from
\* their own namespace object, the cache holds replies of the namespace
\* object it is tagged with only, and while the namespace object does not
\* change the method of a key is not invoked again once an invocation has
\* returned; an invocation that raises caches nothing.
FreshAndFetchedOnce ==
    /\ RepliesAreFresh
    /\ cache_attr.set
       => \A k \in Keys :
             heap[cache_attr.cache][k].from \in {0, cache_attr.ns}
    /\ \A k \in Keys :
          /\ ~hist.again[k]
          /\ hist.returned[k] <=> (cache_attr.set /\
                                   heap[cache_attr.cache][k] # NoReply)
    /\ frames[1].exc.type \in {"none", "Exception"}

\* C14 witness: after the namespace object had changed, a call was
\* answered from the cache without invoking the method
FreshAndFetchedOnceWitness ==
    /\ hist.switched /\ hist.hit
    /\ frames[1].pc = "done"
    /\ frames[1].ret.from = frames[1].ns
    /\ hist.invoked[frames[1].key] = 1

\* a call has returned a reply fetched from another namespace object
StaleReply ==
    \E t \in Threads :
        /\ frames[t].pc = "done" /\ frames[t].exc.type = "none"
        /\ frames[t].ret.from # frames[t].ns

\* the cache holds a reply fetched from another namespace object than the
\* one it is tagged with
StaleCache ==
    /\ cache_attr.set
    /\ \E k \in Keys :
          heap[cache_attr.cache][k].from \notin {0, cache_attr.ns}

\* C15: a reply fetched from one namespace object is returned to a call
\* with another, or held by the cache tagged with another, only after
\* calls have interleaved; with calls that interleave between the
\* comparison of the namespace objects and the look-up such a state is
\* reached.
StaleOnlyAfterInterleaving ==
    (StaleReply \/ StaleCache) => hist.raced

\* C15 witness: two calls with different namespace objects have
\* interleaved and one of them is returning the reply fetched from the
\* namespace object of the other
StaleOnlyAfterInterleavingWitness ==
    /\ hist.raced
    /\ \E t \in Threads, u \in Threads :
          /\ frames[t].pc = "done" /\ frames[t].exc.type = "none"
          /\ frames[u].ns # 0 /\ frames[u].ns # frames[t].ns
          /\ frames[t].ret.from = frames[u].ns

====
